---- MODULE Spec2Model ----
(***************************************************************************)
(* State-machine model of the shielded-pool client in                       *)
(* src/src/components/ConfidentialPanel.tsx (React component                *)
(* ConfidentialPanel) together with the ledger it talks to and the sample   *)
(* circuits in src/public/circuits_sample.                                  *)
(*                                                                          *)
(* Every click handler is an async function: it runs synchronously up to    *)
(* its first await, and each later resumption is one further step.  A      *)
(* handler reads the values of the render in which it was started (React    *)
(* closure): userNotes, state.* and merkleRoot are copied into the          *)
(* operation record at the click and the later steps read the copies.       *)
(*                                                                          *)
(* The UI event log (state.events) and the activeTab are display-only and   *)
(* are not modelled.                                                        *)
(***************************************************************************)
EXTENDS Integers, Sequences, FiniteSets, TLC

\* ------------------------------------------------------------------ bounds
MaxOps == 3          \* operations (clicks that start a handler) per run
MaxRetract == 1      \* blocks the ledger retracts per run
MaxForeign == 1      \* deposits of other users that land per run
MaxLeafIndex == 70   \* leaf indices drawn for the path-resolution function
MaxDraw == 2         \* distinct values getRandomValues can return (SpecInputs)

\* ------------------------------------------------------- program constants
AssumedDepth == 32   \* const depth = 32 in fetchMerklePath
CircuitLevels == 20  \* component main = Transfer(20), transfer.circom
AccountScalar == 77  \* hexToBn(selectedAccount.address) of the account that
                     \* wrote the stored notes
OtherAccount == 78   \* the same, of another account of the wallet

\* state.deposit.amount is the text of a number input: a decimal digit string
AmountStrings == {<<>>, <<1, 0>>}
LedgerDepths == {CircuitLevels, AssumedDepth}

\* what the user types into the deposit amount field (nothing, "0", "10")
\* and into the output amount fields of a transfer ("5", "10")
FormAmounts == {<<>>, <<0>>, <<1, 0>>}
TransferAmounts == {<<5>>, <<1, 0>>}
Accounts == {AccountScalar, OtherAccount}
NonceDraws == 1..MaxDraw

VARIABLES
    selectedAccount,  \* useWallet().selectedAccount, as hexToBn reads it
    api,            \* the component's ApiPromise is set (useState api)
    merkleRoot,     \* useState merkleRoot: [isNull, hex]
    poseidon,       \* useState poseidon is set
    userNotes,      \* useState userNotes
    privateNotes,   \* localforage item 'privateNotes'
    loading,        \* state.loading
    error,          \* state.error: the reason of the last failure, "" if none
    maxRendered,    \* the longest userNotes rendered so far: the note
                    \* selectors (state.withdraw.noteIndex, state.transact.
                    \* fromNote1/2) hold a value chosen from the options of
                    \* some earlier render
    ops,            \* the handler invocations that reached an await
    ledgerLeaves,   \* commitments in the ledger's tree (best chain)
    retracted,      \* blocks retracted so far
    foreign,        \* deposits of other users landed so far
    pLeaf,          \* resolvePath: the leaf index asked for
    pDepth,         \* resolvePath: the tree depth of the ledger asked for
    pResult,        \* resolvePath: what fetchMerklePath returned
    status,         \* useApiStore apiState.status
    connectionAttempts, \* useApiStore apiState.connectionAttempts
    storeApi,       \* useApiStore api is set
    currentApi,     \* module variable currentApi is set
    healthCheckInterval, \* module variable healthCheckInterval is set
    healthCheck,    \* the health check awaiting api.rpc.system.chain():
                    \* "none", or the apiState.status it read at its start
    reconnectTimeout,   \* module variable reconnectTimeout is set
    timers,         \* reconnect timers pending in the runtime
    listeners,      \* a WsProvider with the listeners of lines 261-263 exists
    autoConnect,    \* the timer of lines 331-333 is pending
    disconnecting,  \* connect calls awaiting get().disconnect(), line 95
    creating,       \* connect calls awaiting ApiPromise.create, line 114
    closing         \* disconnect calls of the user awaiting cleanupConnection

vars == <<selectedAccount, api, merkleRoot, poseidon, userNotes, privateNotes, loading, error,
          maxRendered, ops, ledgerLeaves, retracted, foreign, pLeaf, pDepth,
          pResult,
          status, connectionAttempts, storeApi, currentApi,
          healthCheckInterval, healthCheck, reconnectTimeout, timers,
          listeners, autoConnect, disconnecting, creating, closing>>
storeVars == <<status, connectionAttempts, storeApi, currentApi,
               healthCheckInterval, healthCheck, reconnectTimeout, timers,
               listeners, autoConnect, disconnecting, creating, closing>>

connVars == <<selectedAccount, api, merkleRoot, poseidon>>
noteVars == <<userNotes, privateNotes, maxRendered>>
clientVars == <<selectedAccount, api, merkleRoot, poseidon, userNotes,
                privateNotes,
                maxRendered, loading, error>>
pathVars == <<pLeaf, pDepth, pResult>>
ledgerVars == <<ledgerLeaves, retracted, foreign>>

\* ------------------------------------------------------------ conversions
RECURSIVE DigitsValue(_, _)
DigitsValue(s, base) ==
    IF s = <<>> THEN 0
    ELSE DigitsValue(SubSeq(s, 1, Len(s) - 1), base) * base + s[Len(s)]

\* @polkadot/util hexToBn applied to the text: the digits are read in base 16
hexToBn(s) == DigitsValue(s, 16)

\* new BN(text): the digits are read in base 10
BN(s) == DigitsValue(s, 10)

\* circomlibjs poseidon, kept symbolic: the hash of an input vector is the
\* vector itself, so two hashes are equal exactly when arity, order and
\* values of the inputs are equal
Poseidon(inputs) == inputs

\* generateDepositProof lines 112-122: the commitment the client computes
\* for an account
CommitmentOf(account, amount, nonce) ==
    Poseidon(<<hexToBn(amount), account, nonce>>)

ClientCommitment(amount, nonce) ==
    CommitmentOf(selectedAccount, amount, nonce)

\* deposit.circom: commitment <== Poseidon(2)(amount, blinding)
DepositCircuitCommitment(amount, blinding) == Poseidon(<<amount, blinding>>)

\* transfer.circom: the leaf recomputed for a source note
TransferCircuitLeaf(amount, blinding) == Poseidon(<<amount, blinding>>)

\* generateWithdrawProof line 190: nullifier = poseidon([nonce])
ClientNullifier(nonce) == Poseidon(<<nonce>>)

\* ------------------------------------------------------------------ ledger
\* api.query.confidentialTransactions.treeNodes([d, i]): the node is named
\* by its storage key
treeNodes(d, i) == <<d, i>>

\* api.query.confidentialTransactions.merkleRoot(): the root is a function of
\* the leaves, kept symbolic as the leaf sequence
LedgerRoot == [isNull |-> FALSE, hex |-> ledgerLeaves]
NullRoot == [isNull |-> TRUE, hex |-> <<>>]

\* a commitment appended by some other user of the pool
ForeignCommitment == <<0, 0, 0>>

\* ------------------------------------------------------------- Merkle path
\* the loop of fetchMerklePath, lines 173-178, from level d down to 1, with
\* the query at level failAt rejecting (failAt = 0: every query answers)
RECURSIVE PathLoop(_, _, _, _)
PathLoop(index, d, path, failAt) ==
    IF d > 0
    THEN IF d = failAt
         THEN [ok |-> FALSE, path |-> <<>>]   \* await rejects: the call throws
         ELSE LET siblingIndex == IF index % 2 = 0 THEN index + 1
                                  ELSE index - 1
              IN PathLoop(index \div 2, d - 1,
                          Append(path, treeNodes(d, siblingIndex)), failAt)
    ELSE [ok |-> TRUE, path |-> path]

\* the same loop, returning the siblings fetched so far when a query rejects
RECURSIVE PathLoopPartial(_, _, _, _)
PathLoopPartial(index, d, path, failAt) ==
    IF d > 0
    THEN IF d = failAt
         THEN [ok |-> TRUE, path |-> path]
         ELSE LET siblingIndex == IF index % 2 = 0 THEN index + 1
                                  ELSE index - 1
              IN PathLoopPartial(index \div 2, d - 1,
                          Append(path, treeNodes(d, siblingIndex)), failAt)
    ELSE [ok |-> TRUE, path |-> path]

fetchMerklePathPartial(apiSet, leafIndex, failAt) ==
    IF ~apiSet THEN [ok |-> TRUE, path |-> <<>>]
    ELSE PathLoopPartial(leafIndex, AssumedDepth, <<>>, failAt)

\* fetchMerklePath(leafIndex), lines 168-180; apiSet is the closure's api
fetchMerklePath(apiSet, leafIndex, failAt) ==
    IF ~apiSet THEN [ok |-> TRUE, path |-> <<>>]      \* if (!api) return []
    ELSE PathLoop(leafIndex, AssumedDepth, <<>>, failAt)

\* ------------------------------------------------------------- operations
Note(amount, nonce, commitment, leafIndex) ==
    [amount |-> amount, nonce |-> nonce, commitment |-> commitment,
     leafIndex |-> leafIndex]

NoPath == [ok |-> FALSE, path |-> <<>>]
NoResult == [done |-> FALSE, ok |-> FALSE, path |-> <<>>]

\* one handler invocation; cNotes, cAmount and outs are the closure's copies
\* of userNotes, of the form's amount and of the transfer's output amounts.
\* root1 is the ledger's root when the
\* first path was resolved, rootMoved that the ledger's root has changed
\* between then and the end of path resolution, rootStale that the root the
\* client holds (merkleRoot, the public input of the proof) is not the
\* ledger's at the end of path resolution.
NewOp(kind) ==
    [kind |-> kind, pc |-> "start", failure |-> "",
     cNotes |-> userNotes, cAmount |-> <<>>,
     src |-> <<>>, outs |-> <<>>, nonce |-> 0, commitment |-> <<>>,
     proverCalled |-> FALSE, txAmount |-> 0,
     root1 |-> NullRoot, rootMoved |-> FALSE, rootStale |-> FALSE,
     path1 |-> NoPath, path2 |-> NoPath,
     tx |-> "none", leaf |-> -1]

\* the handler's catch block ran: its closure is gone
Failed(op, reason) ==
    [op EXCEPT !.pc = "failed", !.failure = reason, !.cNotes = <<>>,
               !.cAmount = <<>>, !.nonce = 0, !.commitment = <<>>,
               !.src = <<>>, !.outs = <<>>, !.root1 = NullRoot]

\* the extrinsic reached a final status: the status callback, and with it
\* the closure's copy of userNotes, is never used again
Closed(op, final) == [op EXCEPT !.tx = final, !.cNotes = <<>>]

OpIds == 1..Len(ops)

\* ------------------------------------------------------------------- Init
\* notes a previous session of the same client left in localforage: two
\* deposits of this account, at leaves 0 and 1
PriorNonce1 == 101
PriorNonce2 == 102
PriorNotes ==
    << Note(<<5>>, PriorNonce1,
            CommitmentOf(AccountScalar, <<5>>, PriorNonce1), 0),
       Note(<<1, 0>>, PriorNonce2,
            CommitmentOf(AccountScalar, <<1, 0>>, PriorNonce2), 1) >>

RECURSIVE Commitments(_)
Commitments(notes) ==
    IF notes = <<>> THEN <<>>
    ELSE <<notes[1].commitment>> \o Commitments(Tail(notes))

\* ------------------------------------------------------------ api store
\* useApiStore initial state, lines 63-76, and the module variables, lines
\* 55-60; the auto-connect timer of lines 330-334 is pending
MAX_RETRIES == 5

StoreInit ==
    /\ status = "disconnected"
    /\ connectionAttempts = 0
    /\ storeApi = FALSE
    /\ currentApi = FALSE
    /\ healthCheckInterval = FALSE
    /\ healthCheck = "none"
    /\ reconnectTimeout = FALSE
    /\ timers = 0
    /\ listeners = FALSE
    /\ autoConnect = TRUE
    /\ disconnecting = 0
    /\ creating = 0
    /\ closing = 0

ClientInit ==
    /\ api = FALSE
    /\ merkleRoot = NullRoot
    /\ poseidon = FALSE
    /\ userNotes = <<>>
    /\ maxRendered = 0
    /\ loading = FALSE
    /\ error = ""
    /\ ops = <<>>

Init ==
    /\ selectedAccount = AccountScalar
    /\ ClientInit
    /\ StoreInit
    /\ privateNotes \in {<<>>, PriorNotes}
    /\ ledgerLeaves = Commitments(privateNotes)
    /\ retracted = 0
    /\ foreign = 0
    /\ pLeaf = 0
    /\ pDepth = AssumedDepth
    /\ pResult = NoResult

Max(a, b) == IF a >= b THEN a ELSE b

\* ------------------------------------------------------------ environment
\* useEffect line 17-22: buildPoseidon().then(setPoseidon)
BuildPoseidon ==
    /\ ~poseidon
    /\ poseidon' = TRUE
    /\ UNCHANGED <<selectedAccount, api, merkleRoot, noteVars, loading,
                   error, ops, ledgerVars, pathVars, storeVars>>

\* useEffect connect lines 50-93: setApi, setMerkleRoot, load stored notes
Connect ==
    /\ ~api
    /\ api' = TRUE
    /\ merkleRoot' = LedgerRoot
    /\ userNotes' = privateNotes
    /\ maxRendered' = Max(maxRendered, Len(privateNotes))
    /\ UNCHANGED <<selectedAccount, poseidon, privateNotes, loading, error,
                   ops, ledgerVars, pathVars, storeVars>>

\* ---------------------------------------------------------------- deposit
\* generateNonce lines 101-105: the 32 bytes window.crypto.getRandomValues
\* wrote into nonceBuffer, joined as hex digits; the model names the nonce by
\* the number hexToBn(nonce) reads back
generateNonce(nonceBuffer) == nonceBuffer

\* a run in which no two draws of getRandomValues coincide, among themselves
\* or with those of earlier sessions: the k-th operation draws the value k
FreshDraw == Len(ops) + 1

\* saveNote lines 95-99, called from a handler whose closure holds cNotes
saveNote(cNotes, note) == Append(cNotes, note)

\* handleDeposit lines 135-142 and generateDepositProof lines 107-124: from
\* the click to the first await (fullProve); amount is state.deposit.amount,
\* nonceBuffer what getRandomValues returns.
\* A throw before the first await is caught at line 163 in the same step.
handleDeposit(amount, nonceBuffer) ==
    /\ ~loading                      \* button: disabled={state.loading ...}
    /\ IF ~(api /\ ~merkleRoot.isNull)
       THEN /\ error' = "Not connected or account not selected"
            /\ UNCHANGED <<loading, ops>>
       ELSE IF amount = <<>>
       THEN /\ error' = "Deposit failed"
            /\ loading' = FALSE
            /\ UNCHANGED ops
       ELSE IF ~poseidon
       THEN /\ error' = "Deposit failed"  \* Poseidon not initialized
            /\ loading' = FALSE
            /\ UNCHANGED ops
       ELSE /\ Len(ops) < MaxOps
            /\ LET n == generateNonce(nonceBuffer)
               IN ops' = Append(ops,
                     [NewOp("deposit") EXCEPT
                         !.pc = "proving",
                         !.cAmount = amount,
                         !.nonce = n,
                         !.commitment = ClientCommitment(amount, n),
                         !.proverCalled = TRUE])
            /\ loading' = TRUE
            /\ error' = ""
    /\ UNCHANGED <<connVars, noteVars, ledgerVars, pathVars, storeVars>>

\* handleDeposit lines 142-147: fullProve answers; the extrinsic is built
\* and handed to signAndSend
DepositProved(i) ==
    /\ i \in OpIds
    /\ ops[i].kind = "deposit" /\ ops[i].pc = "proving"
    /\ \/ /\ ops' = [ops EXCEPT ![i] = Failed(@, "ProofFailed")]
          /\ error' = "Deposit failed"
          /\ loading' = FALSE
       \/ /\ ops' = [ops EXCEPT ![i] =
                        [@ EXCEPT !.pc = "signing",
                                  !.txAmount = BN(ops[i].cAmount)]]
          /\ UNCHANGED <<error, loading>>
    /\ UNCHANGED <<connVars, noteVars, ledgerVars, pathVars, storeVars>>

\* handleDeposit line 148: await tx.signAndSend(...) resolves (broadcast) or
\* rejects (the wallet refuses to sign, the node refuses the extrinsic)
DepositSigned(i) ==
    /\ i \in OpIds
    /\ ops[i].kind = "deposit" /\ ops[i].pc = "signing"
    /\ \/ /\ ops' = [ops EXCEPT ![i] = Failed(@, "SubmissionError")]
          /\ error' = "Deposit failed"
          /\ loading' = FALSE
       \/ /\ ops' = [ops EXCEPT ![i] =
                        [@ EXCEPT !.pc = "watching", !.tx = "ready"]]
          /\ UNCHANGED <<error, loading>>
    /\ UNCHANGED <<connVars, noteVars, ledgerVars, pathVars, storeVars>>

\* the status callback of handleDeposit, lines 148-162, for an InBlock
\* status.  included = TRUE: the dispatch succeeded, the ledger appended the
\* commitment and reported its leaf in the Deposit event.  included = FALSE:
\* dispatch error, no Deposit event among result.events.
DepositInBlock(i, included) ==
    /\ i \in OpIds
    /\ ops[i].kind = "deposit"
    /\ ops[i].tx \in {"ready", "retracted"}
    /\ IF included
       THEN /\ LET leafIndex == Len(ledgerLeaves)
                   note == Note(ops[i].cAmount, ops[i].nonce,
                                ops[i].commitment, leafIndex)
                   notes == saveNote(ops[i].cNotes, note)
               IN /\ ledgerLeaves' = Append(ledgerLeaves, ops[i].commitment)
                  /\ userNotes' = notes
                  /\ privateNotes' = notes
                  /\ maxRendered' = Max(maxRendered, Len(notes))
                  /\ ops' = [ops EXCEPT ![i] =
                               [@ EXCEPT !.tx = "inBlock",
                                         !.leaf = leafIndex]]
       ELSE /\ ops' = [ops EXCEPT ![i] =
                         [@ EXCEPT !.tx = "inBlock", !.leaf = -1]]
            /\ UNCHANGED <<ledgerLeaves, noteVars>>
    /\ loading' = FALSE
    /\ UNCHANGED <<connVars, error, retracted, foreign, pathVars, storeVars>>

\* ---------------------------------------------------------------- selectors
\* onChange of the note selectors, lines 408, 455, 468:
\* parseInt(e.target.value) || null.  v = -1 is the "Select Note" option,
\* whose value "" parses to NaN; null is -1.
ParseIntOrNull(v) == IF v = -1 \/ v = 0 THEN -1 ELSE v

\* the values a selector can hold: those of the options (lines 411-414) of
\* any render so far, passed through the onChange handler
SelectorValues == {ParseIntOrNull(v) : v \in -1..(maxRendered - 1)}

\* --------------------------------------------------------------- withdraw
\* userNotes[k] of the closure is defined (JavaScript index k, from 0)
Defined(notes, k) == k >= 0 /\ k < Len(notes)

\* identifiers that generateWithdrawProof can read at line 198: its own
\* declarations (lines 183-196) and the component's (lines 12-48)
WithdrawScope ==
    {"noteIndex", "amount", "recipient", "note", "nonceBn", "nullifierBigInt",
     "nullifier", "path", "amountBn", "recipientBn", "fee",
     "merkleRoot", "userNotes", "state", "api", "poseidon", "selectedAccount"}

\* identifiers read while the argument of fullProve is built, lines 199-208
WithdrawProverInputs ==
    {"merkleRoot", "nullifierBn", "recipientBn", "amountBn", "fee", "path",
     "nonceBn", "note"}

\* identifiers generateTransactProof can read at line 300 (lines 263-298)
TransactScope ==
    {"fromNote1", "fromNote2", "toAmount1", "toRecipient1", "toAmount2",
     "note1", "note2", "nullifier1BigInt", "nullifier2BigInt", "nullifier1",
     "nullifier2", "nonce1", "nonce2", "toAmount1Bn", "toRecipient1Bn",
     "commitment1BigInt", "commitment1", "toAmount2Bn", "toRecipient2Bn",
     "commitment2BigInt", "commitment2", "path1", "path2",
     "merkleRoot", "userNotes", "state", "api", "poseidon", "selectedAccount"}

\* identifiers read while the argument of fullProve is built, lines 301-312
TransactProverInputs ==
    {"merkleRoot", "nullifier1Bn", "nullifier2Bn", "commitment1Bn",
     "commitment2Bn", "path1", "path2", "note1", "note2"}

\* reading an identifier that no scope declares throws a ReferenceError
ThrowsReferenceError(reads, scope) == \E id \in reads : id \notin scope

\* handleWithdraw lines 218-225 and generateWithdrawProof lines 182-192: from
\* the click to the first await (the first query of fetchMerklePath);
\* noteIndex is state.withdraw.noteIndex
handleWithdraw(noteIndex) ==
    /\ ~loading /\ noteIndex # -1            \* button, line 439
    /\ noteIndex \in SelectorValues
    /\ IF ~(api /\ ~merkleRoot.isNull)
       THEN /\ error' = "Not connected or account not selected"
            /\ UNCHANGED <<loading, ops>>
       ELSE IF ~Defined(userNotes, noteIndex)
       THEN /\ error' = "Withdraw failed"
            /\ loading' = FALSE
            /\ UNCHANGED ops
       ELSE IF ~poseidon
       THEN /\ error' = "Withdraw failed"  \* Poseidon not initialized
            /\ loading' = FALSE
            /\ UNCHANGED ops
       ELSE /\ Len(ops) < MaxOps
            /\ ops' = Append(ops,
                   [NewOp("withdraw") EXCEPT
                       !.pc = "resolving",
                       !.src = <<noteIndex>>])
            /\ loading' = TRUE
            /\ error' = ""
    /\ UNCHANGED <<connVars, noteVars, ledgerVars, pathVars, storeVars>>

\* a withdraw that builds the prover's input as soon as the path query has
\* settled, whatever its outcome
WithdrawResolvedUnchecked(i, failAt) ==
    /\ i \in OpIds
    /\ ops[i].kind = "withdraw" /\ ops[i].pc = "resolving"
    /\ LET note == ops[i].cNotes[ops[i].src[1] + 1]
           r == fetchMerklePath(api, note.leafIndex, failAt)
       IN ops' = [ops EXCEPT ![i] =
                     [@ EXCEPT !.path1 = r, !.pc = "proving",
                               !.proverCalled = TRUE]]
    /\ UNCHANGED <<connVars, noteVars, loading, error, ledgerVars, pathVars, storeVars>>

\* generateWithdrawProof lines 192-211: fetchMerklePath answers or throws,
\* then the argument of fullProve is evaluated; handleWithdraw's catch block
\* (line 257) takes every throw.  The code after fullProve (lines 212-256) is
\* reached only if no identifier is unresolved.
WithdrawResolved(i, failAt) ==
    /\ i \in OpIds
    /\ ops[i].kind = "withdraw" /\ ops[i].pc = "resolving"
    /\ LET note == ops[i].cNotes[ops[i].src[1] + 1]
           r == fetchMerklePath(api, note.leafIndex, failAt)
           op == [ops[i] EXCEPT !.path1 = r,
                                !.rootStale = (merkleRoot # LedgerRoot)]
       IN IF ~r.ok
          THEN /\ ops' = [ops EXCEPT ![i] = Failed(op, "PathUnavailable")]
               /\ error' = "Withdraw failed"
               /\ loading' = FALSE
          ELSE IF ThrowsReferenceError(WithdrawProverInputs, WithdrawScope)
          THEN /\ ops' = [ops EXCEPT ![i] = Failed(op, "ReferenceError")]
               /\ error' = "Withdraw failed"
               /\ loading' = FALSE
          ELSE /\ ops' = [ops EXCEPT ![i] =
                            [op EXCEPT !.pc = "proving",
                                       !.proverCalled = TRUE]]
               /\ UNCHANGED <<error, loading>>
    /\ UNCHANGED <<connVars, noteVars, ledgerVars, pathVars, storeVars>>

\* --------------------------------------------------------------- transfer
\* handleTransact lines 322-329 and generateTransactProof lines 262-297: from
\* the click to the first await; n1 and n2 are state.transact.fromNote1 and
\* fromNote2, toAmount1 and toAmount2 the texts of the two output amount
\* fields (lines 278, 288).  The output nonces and commitments computed at
\* lines 276-295 are locals that nothing reads before the throw at line 303;
\* they are not kept.
handleTransact(n1, n2, toAmount1, toAmount2) ==
    /\ ~loading /\ n1 # -1 /\ n2 # -1        \* button, line 509
    /\ n1 \in SelectorValues /\ n2 \in SelectorValues
    /\ IF ~(api /\ ~merkleRoot.isNull)
       THEN /\ error' = "Not connected or account not selected"
            /\ UNCHANGED <<loading, ops>>
       ELSE IF ~poseidon
       THEN /\ error' = "Transact failed"  \* Poseidon not initialized
            /\ loading' = FALSE
            /\ UNCHANGED ops
       ELSE IF ~(Defined(userNotes, n1) /\ Defined(userNotes, n2))
       THEN /\ error' = "Transact failed" \* TypeError: note1.nonce of undefined
            /\ loading' = FALSE
            /\ UNCHANGED ops
       ELSE /\ Len(ops) < MaxOps
            /\ ops' = Append(ops,
                   [NewOp("transact") EXCEPT
                       !.pc = "resolving",
                       !.src = <<n1, n2>>,
                       !.outs = <<toAmount1, toAmount2>>])
            /\ loading' = TRUE
            /\ error' = ""
    /\ UNCHANGED <<connVars, noteVars, ledgerVars, pathVars, storeVars>>

\* generateTransactProof line 297: the first path answers or throws
TransactResolved1(i, failAt) ==
    /\ i \in OpIds
    /\ ops[i].kind = "transact" /\ ops[i].pc = "resolving"
    /\ LET note1 == ops[i].cNotes[ops[i].src[1] + 1]
           r == fetchMerklePath(api, note1.leafIndex, failAt)
           op == [ops[i] EXCEPT !.path1 = r, !.root1 = LedgerRoot]
       IN IF ~r.ok
          THEN /\ ops' = [ops EXCEPT ![i] = Failed(op, "PathUnavailable")]
               /\ error' = "Transact failed"
               /\ loading' = FALSE
          ELSE /\ ops' = [ops EXCEPT ![i] = [op EXCEPT !.pc = "resolving2"]]
               /\ UNCHANGED <<error, loading>>
    /\ UNCHANGED <<connVars, noteVars, ledgerVars, pathVars, storeVars>>

\* generateTransactProof lines 298-315: the second path answers or throws,
\* then the argument of fullProve is evaluated
TransactResolved2(i, failAt) ==
    /\ i \in OpIds
    /\ ops[i].kind = "transact" /\ ops[i].pc = "resolving2"
    /\ LET note2 == ops[i].cNotes[ops[i].src[2] + 1]
           r == fetchMerklePath(api, note2.leafIndex, failAt)
           op == [ops[i] EXCEPT !.path2 = r,
                                !.rootMoved = (ops[i].root1 # LedgerRoot),
                                !.rootStale = (merkleRoot # LedgerRoot)]
       IN IF ~r.ok
          THEN /\ ops' = [ops EXCEPT ![i] = Failed(op, "PathUnavailable")]
               /\ error' = "Transact failed"
               /\ loading' = FALSE
          ELSE IF ThrowsReferenceError(TransactProverInputs, TransactScope)
          THEN /\ ops' = [ops EXCEPT ![i] = Failed(op, "ReferenceError")]
               /\ error' = "Transact failed"
               /\ loading' = FALSE
          ELSE /\ ops' = [ops EXCEPT ![i] =
                            [op EXCEPT !.pc = "proving",
                                       !.proverCalled = TRUE]]
               /\ UNCHANGED <<error, loading>>
    /\ UNCHANGED <<connVars, noteVars, ledgerVars, pathVars, storeVars>>

\* ----------------------------------------------------------------- ledger
\* the ledger retracts the block that held the extrinsic (a reorganisation of
\* the chain tip); the callback runs with isInBlock false and does nothing
TxRetracted(i) ==
    /\ i \in OpIds
    /\ ops[i].tx = "inBlock"
    /\ retracted < MaxRetract
    /\ retracted' = retracted + 1
    /\ foreign' = foreign
    /\ IF ops[i].leaf >= 0
       THEN /\ Len(ledgerLeaves) = ops[i].leaf + 1
            /\ ledgerLeaves' = SubSeq(ledgerLeaves, 1, ops[i].leaf)
       ELSE UNCHANGED ledgerLeaves
    /\ ops' = [ops EXCEPT ![i] = [@ EXCEPT !.tx = "retracted", !.leaf = -1]]
    /\ UNCHANGED <<clientVars, pathVars, storeVars>>

\* the block is finalized; the callback runs with isInBlock false
TxFinalized(i) ==
    /\ i \in OpIds
    /\ ops[i].tx = "inBlock"
    /\ ops' = [ops EXCEPT ![i] = Closed(@, "finalized")]
    /\ UNCHANGED <<clientVars, ledgerVars, pathVars, storeVars>>

\* the pool drops the extrinsic or finds it invalid; isInBlock is false
TxInvalid(i) ==
    /\ i \in OpIds
    /\ ops[i].tx \in {"ready", "retracted"}
    /\ ops' = [ops EXCEPT ![i] = Closed(@, "invalid")]
    /\ UNCHANGED <<clientVars, ledgerVars, pathVars, storeVars>>

\* another user's deposit lands: the tree grows and the root changes
OtherDeposit ==
    /\ foreign < MaxForeign
    /\ foreign' = foreign + 1
    /\ ledgerLeaves' = Append(ledgerLeaves, ForeignCommitment)
    /\ UNCHANGED <<clientVars, ops, retracted, pathVars, storeVars>>

\* the levels at which a query of one path resolution is made to fail in
\* the pipeline: none, the last query (d = 1) and the first (d = AssumedDepth)
FailLevels == {0, 1, AssumedDepth}

Next ==
    \/ BuildPoseidon
    \/ Connect
    \/ \E a \in AmountStrings : handleDeposit(a, FreshDraw)
    \/ \E i \in 1..MaxOps : DepositProved(i)
    \/ \E i \in 1..MaxOps : DepositSigned(i)
    \/ \E i \in 1..MaxOps, inc \in BOOLEAN : DepositInBlock(i, inc)
    \/ \E v \in 0..(MaxOps + 2) : handleWithdraw(v)
    \/ \E i \in 1..MaxOps, f \in FailLevels : WithdrawResolved(i, f)
    \/ \E v \in 0..(MaxOps + 2), w \in 0..(MaxOps + 2) :
          handleTransact(v, w, <<5>>, <<5>>)
    \/ \E i \in 1..MaxOps, f \in FailLevels : TransactResolved1(i, f)
    \/ \E i \in 1..MaxOps, f \in FailLevels : TransactResolved2(i, f)
    \/ \E i \in 1..MaxOps : TxRetracted(i)
    \/ \E i \in 1..MaxOps : TxFinalized(i)
    \/ \E i \in 1..MaxOps : TxInvalid(i)
    \/ OtherDeposit

Spec == Init /\ [][Next]_vars

\* ------------------------------------------- deposits and withdraws, fair
\* the runs in which the user deposits a valid amount and withdraws, and in
\* which every await of a running withdraw settles: a query of the ledger
\* answers or rejects
NextRevert ==
    \/ BuildPoseidon
    \/ Connect
    \/ handleDeposit(<<1, 0>>, FreshDraw)
    \/ \E i \in 1..MaxOps : DepositProved(i)
    \/ \E i \in 1..MaxOps : DepositSigned(i)
    \/ \E i \in 1..MaxOps : DepositInBlock(i, TRUE)
    \/ \E v \in 0..(MaxOps + 2) : handleWithdraw(v)
    \/ \E i \in 1..MaxOps, f \in FailLevels : WithdrawResolved(i, f)
    \/ \E i \in 1..MaxOps : TxRetracted(i)
    \/ \E i \in 1..MaxOps : TxFinalized(i)

SpecRevert ==
    /\ Init /\ [][NextRevert]_vars
    /\ WF_vars(\E i \in 1..MaxOps, f \in FailLevels : WithdrawResolved(i, f))

\* ------------------------------------------------ what the user can enter
\* the runs over a quiet ledger (no block is retracted, no other user
\* deposits) in which the wallet's selected account is any of its accounts,
\* the amount fields hold any text of FormAmounts and TransferAmounts, and
\* getRandomValues returns any value of NonceDraws
InitInputs ==
    /\ selectedAccount \in Accounts
    /\ ClientInit
    /\ StoreInit
    /\ privateNotes \in {<<>>, PriorNotes}
    /\ ledgerLeaves = Commitments(privateNotes)
    /\ retracted = 0
    /\ foreign = 0
    /\ pLeaf = 0
    /\ pDepth = AssumedDepth
    /\ pResult = NoResult

NextInputs ==
    \/ BuildPoseidon
    \/ Connect
    \/ \E a \in FormAmounts, b \in NonceDraws : handleDeposit(a, b)
    \/ \E i \in 1..MaxOps : DepositProved(i)
    \/ \E i \in 1..MaxOps : DepositSigned(i)
    \/ \E i \in 1..MaxOps, inc \in BOOLEAN : DepositInBlock(i, inc)
    \/ \E v \in 0..(MaxOps + 2) : handleWithdraw(v)
    \/ \E i \in 1..MaxOps, f \in FailLevels : WithdrawResolved(i, f)
    \/ \E v \in 0..(MaxOps + 2), w \in 0..(MaxOps + 2),
          a1 \in TransferAmounts, a2 \in TransferAmounts :
          handleTransact(v, w, a1, a2)
    \/ \E i \in 1..MaxOps, f \in FailLevels : TransactResolved1(i, f)
    \/ \E i \in 1..MaxOps, f \in FailLevels : TransactResolved2(i, f)
    \/ \E i \in 1..MaxOps : TxFinalized(i)

SpecInputs == InitInputs /\ [][NextInputs]_vars

\* ------------------------------------------------ the path function alone
\* fetchMerklePath called for a leaf index, by a connected client, against a
\* ledger whose tree has pDepth levels.  The circuit of this repository
\* takes CircuitLevels siblings; the client assumes AssumedDepth.
InitPath ==
    /\ selectedAccount = AccountScalar
    /\ ClientInit
    /\ StoreInit
    /\ privateNotes = <<>>
    /\ ledgerLeaves = <<>>
    /\ retracted = 0
    /\ foreign = 0
    /\ pLeaf \in 0..MaxLeafIndex
    /\ pDepth \in LedgerDepths
    /\ pResult = NoResult

ResolvePath(failAt) ==
    /\ ~pResult.done
    /\ LET r == fetchMerklePath(TRUE, pLeaf, failAt)
       IN pResult' = [done |-> TRUE, ok |-> r.ok, path |-> r.path]
    /\ UNCHANGED <<clientVars, ops, ledgerVars, pLeaf, pDepth, storeVars>>

NextPath == \E failAt \in 0..AssumedDepth : ResolvePath(failAt)

SpecPath == InitPath /\ [][NextPath]_vars

\* ================================================================ properties
\* an operation that spends notes, and such an operation still running
IsSpend(i) == ops[i].kind \in {"withdraw", "transact"}
InFlight(i) == ops[i].pc \in {"resolving", "resolving2", "proving", "signing"}

\* the notes are identified by their nonce
NoteIds(notes) == {notes[k].nonce : k \in 1..Len(notes)}

\* the source notes of operation i, read through its closure
SourceIds(i) ==
    {ops[i].cNotes[ops[i].src[k] + 1].nonce : k \in 1..Len(ops[i].src)}

\* the stored notes that deposit i created
NotesOf(i) == {k \in 1..Len(userNotes) : userNotes[k].nonce = ops[i].nonce}

\* C1: a note is the source of at most one in-flight spend attempt: two
\* running withdraw or transfer operations never have a source note in common
C1_OneAttemptPerNote ==
    \A i, j \in OpIds :
        (i < j /\ IsSpend(i) /\ IsSpend(j) /\ InFlight(i) /\ InFlight(j))
            => SourceIds(i) \cap SourceIds(j) = {}

\* C2: a note leaves the spendable set only if it was PendingSpend before: in
\* every step, a note that is removed from the stored notes is a source note of
\* a running spend operation
C2_SpentOnlyAfterPending ==
    [][\A n \in NoteIds(userNotes) :
          n \notin NoteIds(userNotes')
              => \E i \in OpIds :
                    IsSpend(i) /\ InFlight(i) /\ n \in SourceIds(i)]_vars

\* C4: notes are added to the store only when the transaction is Finalized,
\* never at InBlock: a deposit whose note is stored is finalized
C4_StoredOnlyAtFinality ==
    \A i \in OpIds :
        (ops[i].kind = "deposit" /\ ops[i].pc = "watching"
            /\ NotesOf(i) # {})
            => ops[i].tx = "finalized"

\* C5: the leaf index of every stored note is the index at which the ledger
\* holds the note's commitment
C5_LeafIndexIsLedgers ==
    \A k \in 1..Len(userNotes) :
        /\ userNotes[k].leafIndex < Len(ledgerLeaves)
        /\ ledgerLeaves[userNotes[k].leafIndex + 1] = userNotes[k].commitment

\* C6: a spend operation during which the ledger's root changed after a path
\* had been resolved reports StaleRoot
C6_StaleRootReported ==
    \A i \in OpIds :
        (IsSpend(i) /\ ops[i].rootMoved) => ops[i].failure = "StaleRoot"

\* floor(n / 2^k), by k halvings
RECURSIVE FloorDivPow2(_, _)
FloorDivPow2(n, k) == IF k = 0 THEN n ELSE FloorDivPow2(n \div 2, k - 1)

\* n XOR 1
XorOne(n) == IF n % 2 = 0 THEN n + 1 ELSE n - 1

\* C7: for every leaf index and tree depth, a resolved path holds exactly
\* tree_depth siblings, leaf to root, entry k being the node k levels above
\* the leaves (ledger level pDepth - k) with index floor(leaf / 2^k) XOR 1
C7_PathMatchesTreeDepth ==
    (pResult.done /\ pResult.ok)
        => /\ Len(pResult.path) = pDepth
           /\ \A k \in 0..(pDepth - 1) :
                 pResult.path[k + 1] =
                     treeNodes(pDepth - k, XorOne(FloorDivPow2(pLeaf, k)))

C9_CommitmentMatchesCircuits ==
    \A i \in OpIds :
        (ops[i].kind = "deposit" /\ ops[i].pc # "failed")
            => /\ ops[i].commitment =
                    DepositCircuitCommitment(hexToBn(ops[i].cAmount),
                                             ops[i].nonce)
               /\ ops[i].commitment =
                    TransferCircuitLeaf(hexToBn(ops[i].cAmount), ops[i].nonce)

\* C10: a deposit the ledger finalized has exactly one stored note, with the
\* leaf the ledger reported; a deposit that ended without being finalized
\* has none
C10_OneNotePerFinalizedDeposit ==
    \A i \in OpIds :
        ops[i].kind = "deposit" =>
            /\ (ops[i].tx = "finalized" /\ ops[i].leaf >= 0)
                  => /\ Cardinality(NotesOf(i)) = 1
                     /\ \A k \in NotesOf(i) :
                           userNotes[k].leafIndex = ops[i].leaf
            /\ (ops[i].tx = "invalid" \/ ops[i].pc = "failed")
                  => NotesOf(i) = {}

\* C11: a withdraw from a stored note whose path was resolved is not refused
\* by the client: it goes on to the prover and to the ledger
C11_WithdrawProceeds ==
    \A i \in OpIds :
        (ops[i].kind = "withdraw" /\ ops[i].path1.ok) => ops[i].pc # "failed"

\* C17: at most one proof-generation job is in flight at any time
C17_OneProofJob ==
    Cardinality({i \in OpIds : ops[i].pc = "proving"}) <= 1

\* the sum of the decimal amounts of a sequence of notes
RECURSIVE TotalAmount(_)
TotalAmount(notes) ==
    IF notes = <<>> THEN 0
    ELSE BN(notes[1].amount) + TotalAmount(Tail(notes))

\* the value the ledger holds behind leaf k (from 1): the amount deposited
\* with the commitment, 0 for a leaf of another user
LeafValue(k) ==
    IF \E j \in 1..Len(PriorNotes) :
           k = j /\ ledgerLeaves[k] = PriorNotes[j].commitment
    THEN BN(PriorNotes[k].amount)
    ELSE IF \E i \in OpIds : ops[i].kind = "deposit" /\ ops[i].leaf = k - 1
    THEN LET i == CHOOSE i \in OpIds :
                      ops[i].kind = "deposit" /\ ops[i].leaf = k - 1
         IN ops[i].txAmount
    ELSE 0

RECURSIVE LedgerTotal(_)
LedgerTotal(k) == IF k = 0 THEN 0 ELSE LeafValue(k) + LedgerTotal(k - 1)

\* every transaction of the run has reached a final status and no handler
\* is running
Settled ==
    \A i \in OpIds :
        /\ ~InFlight(i)
        /\ ops[i].tx \in {"none", "finalized", "invalid"}

\* C15: once every operation is settled, the amounts of the notes in the
\* store (localforage) add up to the value the ledger holds for the user
C15_StoreMatchesLedger ==
    Settled => TotalAmount(privateNotes) = LedgerTotal(Len(ledgerLeaves))

\* the nonces of the notes a run can hold
AllNonces == {PriorNonce1, PriorNonce2} \cup (1..MaxOps)

\* note n is the source of a running spend operation
PendingSpend(n) ==
    \E i \in OpIds : IsSpend(i) /\ InFlight(i) /\ n \in SourceIds(i)

\* note n is in the store and no running operation spends it
Unspent(n) == n \in NoteIds(userNotes) /\ ~PendingSpend(n)

\* C14: no note stays PendingSpend forever: a note that is the source of a
\* running spend operation is eventually Unspent again (no spend is ever
\* finalized on the ledger, see C11)
C14_PendingReverts ==
    \A n \in AllNonces : PendingSpend(n) ~> Unspent(n)

\* the source and output amounts of transfer i satisfy the circuit's balance
\* constraint (transfer.circom line 46; the client's transfer has no fee)
Balanced(i) ==
    hexToBn(ops[i].cNotes[ops[i].src[1] + 1].amount)
      + hexToBn(ops[i].cNotes[ops[i].src[2] + 1].amount)
    = hexToBn(ops[i].outs[1]) + hexToBn(ops[i].outs[2])

\* C12: a transfer whose amounts do not balance is rejected in Building: it
\* never gets as far as path resolution or the prover
C12_UnbalancedRejected ==
    \A i \in OpIds :
        (ops[i].kind = "transact" /\ InFlight(i)) => Balanced(i)

\* C13: an operation with an amount not greater than 0 ends before proof
\* generation and broadcast: a deposit that is at the prover, at the wallet
\* or on its way to the ledger has a positive amount
C13_InvalidAmountRejected ==
    \A i \in OpIds :
        (ops[i].kind = "deposit"
            /\ ops[i].pc \in {"proving", "signing", "watching"})
            => BN(ops[i].cAmount) > 0

\* C18: no two stored notes share a blinding (nonce)
C18_BlindingsDistinct ==
    \A k, l \in 1..Len(userNotes) :
        k # l => userNotes[k].nonce # userNotes[l].nonce

\* the account whose address a note's commitment was computed with
Owner(note) == note.commitment[2]

\* C19: the notes listed while an account is selected are notes that were
\* saved under that account
C19_NotesOfSelectedAccountOnly ==
    \A k \in 1..Len(userNotes) : Owner(userNotes[k]) = selectedAccount

\* the ledger has confirmed the leaf of the note with nonce n: the note is
\* from an earlier session or its deposit is finalized
LeafConfirmed(n) ==
    \/ n \in {PriorNonce1, PriorNonce2}
    \/ \E j \in OpIds :
          /\ ops[j].kind = "deposit" /\ ops[j].nonce = n
          /\ ops[j].tx = "finalized" /\ ops[j].leaf >= 0

\* C24: Merkle path resolution is only attempted for notes whose leaf index
\* the ledger has confirmed
C24_PathTargetsConfirmed ==
    \A i \in OpIds :
        (IsSpend(i) /\ ops[i].pc \in {"resolving", "resolving2"})
            => \A n \in SourceIds(i) : LeafConfirmed(n)

\* C25: once connected the in-memory list and the persisted list are equal,
\* and the note of a deposit that is included in the chain is in both
C25_SavedNotesStay ==
    /\ api => userNotes = privateNotes
    /\ \A i \in OpIds :
          (ops[i].kind = "deposit" /\ ops[i].leaf >= 0
              /\ ops[i].tx \in {"inBlock", "finalized"})
              => /\ ops[i].nonce \in NoteIds(userNotes)
                 /\ ops[i].nonce \in NoteIds(privateNotes)

\* C27: the amount in the commitment preimage (the prover's input) is the
\* amount submitted in the extrinsic
C27_OneAmount ==
    \A i \in OpIds :
        (ops[i].kind = "deposit" /\ ops[i].pc \in {"signing", "watching"})
            => ops[i].commitment[1] = ops[i].txAmount

\* C28: choosing the option of any stored note sets the selected source
\* index to that note's position
C28_EveryNoteSelectable ==
    \A k \in 0..(Len(userNotes) - 1) : ParseIntOrNull(k) = k

TamperedNotes ==
    << PriorNotes[1],
       Note(<<1, 0>>, PriorNonce2,
            CommitmentOf(AccountScalar, <<5>>, PriorNonce2), 1) >>

StoredSets == {<<>>, PriorNotes, TamperedNotes}

InitLoad ==
    /\ selectedAccount = AccountScalar
    /\ ClientInit
    /\ StoreInit
    /\ privateNotes \in StoredSets
    /\ ledgerLeaves = IF privateNotes = <<>> THEN <<>>
                      ELSE << PriorNotes[1].commitment,
                              TamperedNotes[2].commitment >>
    /\ retracted = 0
    /\ foreign = 0
    /\ pLeaf = 0
    /\ pDepth = AssumedDepth
    /\ pResult = NoResult

NextLoad ==
    \/ BuildPoseidon
    \/ Connect
    \/ \E v \in SelectorValues : handleWithdraw(v)
    \/ \E i \in OpIds, f \in FailLevels : WithdrawResolved(i, f)
    \/ \E v, w \in SelectorValues : handleTransact(v, w, <<5>>, <<5>>)
    \/ \E i \in OpIds, f \in FailLevels : TransactResolved1(i, f)
    \/ \E i \in OpIds, f \in FailLevels : TransactResolved2(i, f)

SpecLoad == InitLoad /\ [][NextLoad]_vars

\* C21: every note admitted to the in-memory list has the commitment that
\* is recomputed from its amount and blinding
C21_OnlyValidNotesAdmitted ==
    \A k \in 1..Len(userNotes) :
        userNotes[k].commitment
            = ClientCommitment(userNotes[k].amount, userNotes[k].nonce)

\* ------------------------------------------------- every await settles, fair
\* the runs in which every await of a running handler settles and the ledger
\* reports a status for every extrinsic it was sent: the prover answers or
\* throws, signAndSend resolves or rejects, a query answers or rejects, and a
\* broadcast extrinsic is included (with or without a dispatch error),
\* dropped or found invalid
NextLive ==
    \/ BuildPoseidon
    \/ Connect
    \/ handleDeposit(<<1, 0>>, FreshDraw)
    \/ \E i \in 1..MaxOps : DepositProved(i)
    \/ \E i \in 1..MaxOps : DepositSigned(i)
    \/ \E i \in 1..MaxOps, inc \in BOOLEAN : DepositInBlock(i, inc)
    \/ \E v \in 0..(MaxOps + 2) : handleWithdraw(v)
    \/ \E i \in 1..MaxOps, f \in FailLevels : WithdrawResolved(i, f)
    \/ \E i \in 1..MaxOps : TxFinalized(i)
    \/ \E i \in 1..MaxOps : TxInvalid(i)

SpecLive ==
    /\ Init /\ [][NextLive]_vars
    /\ WF_vars(\E i \in 1..MaxOps : DepositProved(i))
    /\ WF_vars(\E i \in 1..MaxOps : DepositSigned(i))
    /\ WF_vars(\E i \in 1..MaxOps, f \in FailLevels : WithdrawResolved(i, f))
    /\ WF_vars(\E i \in 1..MaxOps :
                  \/ \E inc \in BOOLEAN : DepositInBlock(i, inc)
                  \/ TxInvalid(i))
    /\ WF_vars(\E i \in 1..MaxOps : TxFinalized(i))

\* C26: an operation that set loading to true eventually sets it back to
\* false
C26_LoadingCleared == loading ~> ~loading

\* ------------------------------------------------------ pipeline stages
\* the stage of one handler invocation, from the handler's position and the
\* last status of its extrinsic.  A retracted extrinsic stays at InBlock: the
\* status callback ignores the Retracted status.  An extrinsic the ledger
\* dropped or found invalid has failed, like a handler whose catch block ran
Terminal(op) == op.pc = "failed" \/ op.tx \in {"finalized", "invalid"}

StageRank(op) ==
    IF op.tx = "finalized" THEN 6
    ELSE IF op.tx \in {"inBlock", "retracted"} THEN 5
    ELSE IF op.pc \in {"signing", "watching"} THEN 4
    ELSE IF op.pc = "proving" THEN 3
    ELSE IF op.pc \in {"resolving", "resolving2"} THEN 2
    ELSE 1

MaxCalls == 2
MaxAttempts == 7

panelVars == <<clientVars, ops, ledgerVars, pathVars>>

\* calls of connect and disconnect that are awaiting
CallsInFlight == disconnecting + creating + closing

\* scheduleReconnect without the test of lines 304-309
scheduleReconnectUnbounded ==
    IF reconnectTimeout
    THEN UNCHANGED <<reconnectTimeout, timers>>
    ELSE /\ reconnectTimeout' = TRUE
         /\ timers' = timers + 1

\* scheduleReconnect, lines 301-319
scheduleReconnect ==
    IF reconnectTimeout
    THEN UNCHANGED <<reconnectTimeout, timers>>
    ELSE IF connectionAttempts >= MAX_RETRIES
    THEN UNCHANGED <<reconnectTimeout, timers>>
    ELSE /\ reconnectTimeout' = TRUE
         /\ timers' = timers + 1

\* connect, lines 90-114, from the call to its first await; handle and
\* pending are reconnectTimeout and the pending timers when it is called.
\* With currentApi set the first await is that of disconnect (line 95),
\* inside cleanupConnection at line 223, after the interval and the reconnect
\* timer were cleared (lines 206-214)
connect(handle, pending) ==
    IF currentApi
    THEN /\ healthCheckInterval' = FALSE
         /\ reconnectTimeout' = FALSE
         /\ timers' = IF handle THEN pending - 1 ELSE pending
         /\ disconnecting' = disconnecting + 1
         /\ UNCHANGED <<status, connectionAttempts, storeApi, currentApi,
                        listeners, creating>>
    ELSE /\ connectionAttempts < MaxAttempts
         /\ status' = "connecting"
         /\ connectionAttempts' = connectionAttempts + 1
         /\ listeners' = TRUE
         /\ creating' = creating + 1
         /\ reconnectTimeout' = handle
         /\ timers' = pending
         /\ UNCHANGED <<storeApi, currentApi, healthCheckInterval,
                        disconnecting>>

\* lines 330-334: the auto-connect timer fires
AutoConnect ==
    /\ autoConnect
    /\ autoConnect' = FALSE
    /\ connect(reconnectTimeout, timers)
    /\ UNCHANGED <<healthCheck, closing, panelVars>>

\* lines 311-315: the reconnect timer fires
ReconnectTimerFired ==
    /\ timers > 0
    /\ CallsInFlight < MaxCalls
    /\ connect(FALSE, timers - 1)
    /\ UNCHANGED <<healthCheck, autoConnect, closing, panelVars>>

\* connect lines 95-114: currentApi.disconnect() has settled;
\* cleanupConnection ends (lines 227-238), disconnect resets the state
\* (lines 152-164), connect counts the attempt and creates the provider
ConnectDisconnected ==
    /\ disconnecting > 0
    /\ disconnecting' = disconnecting - 1
    /\ currentApi' = FALSE
    /\ storeApi' = FALSE
    /\ status' = "connecting"
    /\ connectionAttempts' = 0 + 1
    /\ listeners' = TRUE
    /\ creating' = creating + 1
    /\ UNCHANGED <<healthCheckInterval, healthCheck, reconnectTimeout, timers,
                   autoConnect, closing, panelVars>>

\* connect lines 114-129: ApiPromise.create resolved
ConnectCreated ==
    /\ creating > 0
    /\ creating' = creating - 1
    /\ storeApi' = TRUE
    /\ currentApi' = TRUE
    /\ status' = "connected"
    /\ connectionAttempts' = 0
    /\ healthCheckInterval' = TRUE
    /\ UNCHANGED <<healthCheck, reconnectTimeout, timers, listeners,
                   autoConnect, disconnecting, closing, panelVars>>

\* connect lines 130-140: ApiPromise.create rejected
ConnectFailed ==
    /\ creating > 0
    /\ creating' = creating - 1
    /\ status' = "error"
    /\ IF connectionAttempts < MAX_RETRIES
       THEN scheduleReconnect
       ELSE UNCHANGED <<reconnectTimeout, timers>>
    /\ UNCHANGED <<connectionAttempts, storeApi, currentApi,
                   healthCheckInterval, healthCheck, listeners, autoConnect,
                   disconnecting, closing, panelVars>>

\* setupProviderListeners lines 244-247
onConnected ==
    /\ listeners
    /\ status' = "connected"
    /\ UNCHANGED <<connectionAttempts, storeApi, currentApi,
                   healthCheckInterval, healthCheck, reconnectTimeout, timers,
                   listeners, autoConnect, disconnecting, creating, closing,
                   panelVars>>

\* setupProviderListeners lines 249-253
onDisconnected ==
    /\ listeners
    /\ status' = "disconnected"
    /\ scheduleReconnect
    /\ UNCHANGED <<connectionAttempts, storeApi, currentApi,
                   healthCheckInterval, healthCheck, listeners, autoConnect,
                   disconnecting, creating, closing, panelVars>>

\* setupProviderListeners lines 255-259
onError ==
    /\ listeners
    /\ status' = "error"
    /\ scheduleReconnect
    /\ UNCHANGED <<connectionAttempts, storeApi, currentApi,
                   healthCheckInterval, healthCheck, listeners, autoConnect,
                   disconnecting, creating, closing, panelVars>>

\* setupHealthMonitoring lines 269-281: the interval ticks and the check
\* awaits api.rpc.system.chain()
HealthTick ==
    /\ healthCheckInterval /\ healthCheck = "none"
    /\ storeApi /\ status \in {"connected", "degraded"}
    /\ healthCheck' = status
    /\ UNCHANGED <<status, connectionAttempts, storeApi, currentApi,
                   healthCheckInterval, reconnectTimeout, timers, listeners,
                   autoConnect, disconnecting, creating, closing, panelVars>>

\* setupHealthMonitoring lines 282-297: the query answered late ("slow",
\* latency > MAX_LATENCY), in time ("fast") or threw ("failed")
HealthAnswered(outcome) ==
    /\ healthCheck # "none"
    /\ healthCheck' = "none"
    /\ IF outcome = "failed"
       THEN /\ status' = "error"
            /\ scheduleReconnect
       ELSE /\ status' = IF outcome = "slow" /\ healthCheck # "degraded"
                            THEN "degraded"
                         ELSE IF outcome = "fast" /\ healthCheck = "degraded"
                            THEN "connected"
                         ELSE status
            /\ UNCHANGED <<reconnectTimeout, timers>>
    /\ UNCHANGED <<connectionAttempts, storeApi, currentApi,
                   healthCheckInterval, listeners, autoConnect, disconnecting,
                   creating, closing, panelVars>>

\* disconnect lines 143-165, called by the application: cleanupConnection
\* clears the interval and the reconnect timer; with currentApi set it
\* awaits currentApi.disconnect() (line 223), otherwise the state is reset
disconnect ==
    /\ CallsInFlight < MaxCalls
    /\ healthCheckInterval' = FALSE
    /\ reconnectTimeout' = FALSE
    /\ timers' = IF reconnectTimeout THEN timers - 1 ELSE timers
    /\ IF currentApi
       THEN /\ closing' = closing + 1
            /\ UNCHANGED <<status, connectionAttempts, storeApi>>
       ELSE /\ status' = "disconnected"
            /\ connectionAttempts' = 0
            /\ storeApi' = FALSE
            /\ UNCHANGED closing
    /\ UNCHANGED <<currentApi, healthCheck, listeners, autoConnect,
                   disconnecting, creating, panelVars>>

\* disconnect lines 150-164: currentApi.disconnect() has settled
DisconnectDone ==
    /\ closing > 0
    /\ closing' = closing - 1
    /\ currentApi' = FALSE
    /\ status' = "disconnected"
    /\ connectionAttempts' = 0
    /\ storeApi' = FALSE
    /\ UNCHANGED <<healthCheckInterval, healthCheck, reconnectTimeout, timers,
                   listeners, autoConnect, disconnecting, creating, panelVars>>

HealthOutcomes == {"slow", "fast", "failed"}

NextReconnect ==
    \/ AutoConnect
    \/ ReconnectTimerFired
    \/ ConnectDisconnected
    \/ ConnectCreated
    \/ ConnectFailed
    \/ onConnected
    \/ onDisconnected
    \/ onError
    \/ HealthTick
    \/ \E o \in HealthOutcomes : HealthAnswered(o)
    \/ disconnect
    \/ DisconnectDone

SpecReconnect == Init /\ [][NextReconnect]_vars

\* C30: at most one reconnect timer is pending, connectionAttempts never
\* exceeds MAX_RETRIES, and once MAX_RETRIES attempts have been counted no
\* step schedules a reconnect timer
C30_ReconnectBounded ==
    /\ [](timers <= 1 /\ connectionAttempts <= MAX_RETRIES)
    /\ [][connectionAttempts >= MAX_RETRIES => timers' <= timers]_vars

C30_Witness ==
    /\ connectionAttempts = MAX_RETRIES
    /\ status = "error"
    /\ timers = 0 /\ creating = 0 /\ disconnecting = 0
====
